---- MODULE Spec2Model ----
(***************************************************************************)
(* Model of the concrete texture generator                                 *)
(* (src/concrete_texture_generator.py): the layered pipeline               *)
(* generate_concrete_texture, its effect layers, and the two global        *)
(* random generators (Python's `random` module and `numpy.random`) that    *)
(* every layer draws from.                                                 *)
(*                                                                         *)
(* Numbers.  Style parameters are fixed-point hundredths (roughness 1.0 is *)
(* 100).  Coherent-noise values, blurred masks and random factors are      *)
(* thousandths.  A pixel buffer is a function from <<x, y>> to an RGB      *)
(* triple of integers; a uint8 store keeps 0..255.                         *)
(*                                                                         *)
(* Library calls (OpenSimplex.noise2, scipy gaussian_filter, PIL ellipse,  *)
(* line, GaussianBlur, alpha_composite, the Mersenne Twister) are modelled *)
(* by what the callers rely on: a deterministic function of their inputs   *)
(* with the documented range.                                              *)
(***************************************************************************)
EXTENDS Integers, Sequences, FiniteSets, TLC

VARIABLES
    pyRandom,   \* state of the global generator of module `random`
    npRandom,   \* state of the global generator of `numpy.random`
    pc,         \* per call: position in generate_concrete_texture
    args,       \* per call: the arguments of the call
    img,        \* per call: img_array, the pixel buffer of the call
    log,        \* per call: layers applied so far, with input and output
    writes,     \* per call: <<raw, stored>> of the last layer's channel writes
    entry,      \* per call: <<pyRandom, npRandom>> when the call began
    firstDraw,  \* per call: first value drawn from `random` by the call
    stain,      \* per call: stain_mask and intensity of the staining layer
    feats,      \* per call: the features the last layer drew, in drawing order
    overlay,    \* per call: alpha of the blurred overlay of the last layer (haze)
    disturbed,  \* draws other code made from `random` between the calls
    unit,       \* direct call of a pure helper (pinhole count)
    turn,       \* the thread that ran last (0: none yet)
    preempts,   \* times a thread was switched out before it ended
    app,        \* the preview window: attributes of ConcreteTextureApp
    tk,         \* the preview window: Tk's pending callbacks
    workers,    \* the preview window: the generation threads
    hist        \* the preview window: what the handlers did

vars == <<pyRandom, npRandom, pc, args, img, log, writes, entry, firstDraw,
          stain, feats, overlay, disturbed, unit, turn, preempts,
          app, tk, workers, hist>>

----------------------------------------------------------------------------
(* Bounds of the model *)

RngMod == 64        \* number of states of each modelled generator
MaxDim == 3         \* pipeline buffers are at most MaxDim x MaxDim
StripW == 64        \* width of the one-row strip used for direct staining calls
MaxCountDim == 75   \* pinhole counts are computed for 64..MaxCountDim
MaxDisturb == 2     \* draws made by other code between two calls
MaxChanges == 2        \* changes the user makes in the preview window
MaxPreempt == 1     \* preemptions in a schedule of two threads

(* Program constants *)

ChannelMax == 255
MinDimension == 64
MaxDimension == 8192
TonalIntensity == 12
KnockdownThreshold == 60
KnockdownK == 50
StippleScale == 35
FineGrainScale == 25
PinholeArea == 600
AggregateArea == 800
StainScale == 15
StainPatches == 8
StainNoiseScale == 80
StainThreshold == 200
CrackBase == 20
PoreBase == 600
HazePatches == 12
HazeBlurRadius == 20
HazeAlphaMax == 30

NoImg == << >>

Calls == {1, 2}

----------------------------------------------------------------------------
(* Arithmetic helpers *)

Max(a, b) == IF a >= b THEN a ELSE b
Min(a, b) == IF a <= b THEN a ELSE b
Abs(a) == IF a < 0 THEN -a ELSE a

\* Python int(x) of the rational n/d (d > 0): truncation toward zero.
TruncDiv(n, d) == IF n >= 0 THEN n \div d ELSE -((-n) \div d)

\* clamp(value, 0, 255) of line 53.
clamp(value) == Max(0, Min(ChannelMax, value))

\* A faulty store: astype(np.uint8) without np.clip keeps the low 8 bits.
WrapClip(value) == value % (ChannelMax + 1)

\* np.clip(a, 0, 255).astype(np.uint8) of one element (value already floored).
NpClip(value) == Max(0, Min(ChannelMax, value))

\* A store of an unclipped integer into a uint8 array keeps the low 8 bits.
AsUint8(value) == value % (ChannelMax + 1)

Pix(w, h) == (0 .. w - 1) \X (0 .. h - 1)

\* Flat row-major index of a pixel, as numpy enumerates (y, x).
Flat(p, w) == p[2] * w + p[1]

----------------------------------------------------------------------------
(* The random generators.  Each is a linear congruential generator over    *)
(* RngMod states whose output is narrower than its state, as the Mersenne  *)
(* Twister's is.                                                           *)

OutRange == (RngMod + 3) \div 4
Out(s) == s \div 4

PyNext(s) == (s * 5 + 3) % RngMod
NpNext(s) == (s * 13 + 7) % RngMod

\* random.seed(seed) and np.random.seed(seed)
PySeed(seed) == (seed * 7 + 1) % RngMod
NpSeed(seed) == (seed * 11 + 5) % RngMod

RECURSIVE PyAfter(_, _)
PyAfter(s, n) == IF n <= 0 THEN s ELSE PyAfter(PyNext(s), n - 1)

RECURSIVE NpAfter(_, _)
NpAfter(s, n) == IF n <= 0 THEN s ELSE NpAfter(NpNext(s), n - 1)

\* random.randint(lo, hi), both ends included (needs lo <= hi)
RandInt(s, lo, hi) == lo + (Out(s) * (hi - lo + 1)) \div OutRange

\* random.uniform(a, b) in the unit of a and b
Uniform(s, a, b) == a + ((b - a) * Out(s)) \div OutRange

\* A faulty draw that takes high as included, as random.randint does.
NpRandIntInclusive(s, low, high) == low + (Out(s) * (high - low + 1)) \div OutRange

\* np.random.randint(low, high), high excluded (needs low < high)
NpRandInt(s, low, high) == low + (Out(s) * (high - low)) \div OutRange

----------------------------------------------------------------------------
(* hex_to_rgb (lines 42-45).  A string is a sequence of one-character      *)
(* strings.                                                                *)

HexDigits == <<"0", "1", "2", "3", "4", "5", "6", "7", "8", "9",
               "a", "b", "c", "d", "e", "f">>
UpperHex == <<"0", "1", "2", "3", "4", "5", "6", "7", "8", "9",
              "A", "B", "C", "D", "E", "F">>

IsHexDigit(c) == \E i \in 1 .. 16 : HexDigits[i] = c \/ UpperHex[i] = c
HexVal(c) == (CHOOSE i \in 1 .. 16 : HexDigits[i] = c \/ UpperHex[i] = c) - 1

RECURSIVE LStrip(_, _)
LStrip(s, c) == IF Len(s) > 0 /\ Head(s) = c THEN LStrip(Tail(s), c) ELSE s

RECURSIVE RStrip(_, _)
RStrip(s, c) ==
    IF Len(s) > 0 /\ s[Len(s)] = c THEN RStrip(SubSeq(s, 1, Len(s) - 1), c) ELSE s

\* s[i:j] of Python (0-based, j excluded, cut at the end of the string)
Slice(s, i, j) == SubSeq(s, i + 1, Min(j, Len(s)))

RECURSIVE DigitsValue(_)
DigitsValue(s) ==
    IF Len(s) = 0 THEN 0
    ELSE DigitsValue(SubSeq(s, 1, Len(s) - 1)) * 16 + HexVal(s[Len(s)])

\* int(s, 16): surrounding whitespace is ignored, one sign is accepted, and
\* at least one digit must follow.  ok is FALSE where Python raises ValueError.
IntBase16(s) ==
    LET t == RStrip(LStrip(s, " "), " ")
        signed == Len(t) > 0 /\ Head(t) \in {"+", "-"}
        d == IF signed THEN Tail(t) ELSE t
    IN  IF Len(d) = 0 \/ \E i \in 1 .. Len(d) : ~IsHexDigit(d[i])
        THEN [ok |-> FALSE, val |-> 0]
        ELSE [ok |-> TRUE,
              val |-> IF signed /\ Head(t) = "-" THEN -DigitsValue(d)
                      ELSE DigitsValue(d)]

\* ok is FALSE where the conversion raises; rgb is the returned tuple.
hex_to_rgb(hex_color) ==
    LET h == LStrip(hex_color, "#")
        r == IntBase16(Slice(h, 0, 2))
        g == IntBase16(Slice(h, 2, 4))
        b == IntBase16(Slice(h, 4, 6))
    IN  [ok |-> r.ok /\ g.ok /\ b.ok, rgb |-> <<r.val, g.val, b.val>>]

----------------------------------------------------------------------------
(* Library models *)

\* OpenSimplex(seed).noise2(xs, ys), thousandths in [-1000, 1000]; xs and ys
\* are the scaled coordinates in units of 1/10000.  Zero at the origin.
noise2(seed, xs, ys) ==
    IF xs = 0 /\ ys = 0 THEN 0
    ELSE (((seed * 31 + xs * 17 + ys * 29) % 21) - 10) * 100

\* Side tap (thousandths) of the 3-tap truncation of a Gaussian of deviation
\* sigma (hundredths): exp(-1/(2 sigma^2)) normalised.
GaussTap(sigma) ==
    IF sigma < 200 THEN 274
    ELSE IF sigma < 300 THEN 324
    ELSE IF sigma < 500 THEN 327
    ELSE 331

\* Neighbour index with the edge pixel repeated (scipy 'reflect', PIL edge).
Edge(i, n) == Max(0, Min(n - 1, i))

\* One separable Gaussian pass along x then y of a scalar map m over Pix(w, h).
Blur(m, w, h, sigma) ==
    LET k1 == GaussTap(sigma)
        k0 == 1000 - 2 * k1
        bx == [p \in Pix(w, h) |->
                 (k0 * m[p] + k1 * m[<<Edge(p[1] - 1, w), p[2]>>]
                            + k1 * m[<<Edge(p[1] + 1, w), p[2]>>]) \div 1000] @@ << >>
    IN  [p \in Pix(w, h) |->
           (k0 * bx[p] + k1 * bx[<<p[1], Edge(p[2] - 1, h)>>]
                       + k1 * bx[<<p[1], Edge(p[2] + 1, h)>>]) \div 1000] @@ << >>

\* scipy.ndimage.gaussian_filter: an axis whose sigma is not positive is
\* left unfiltered.
gaussian_filter(m, w, h, sigma) == IF sigma > 0 THEN Blur(m, w, h, sigma) ELSE m

\* Pixels that ImageDraw.ellipse fills for the box [x-r, y-r, x+r, y+r].
InDisk(p, x, y, r) ==
    (p[1] - x) * (p[1] - x) + (p[2] - y) * (p[2] - y) <= r * r

\* Pixels of the segment from a to b drawn by ImageDraw.line, width 1.
SegmentPixels(a, b) ==
    LET dx == b[1] - a[1]
        dy == b[2] - a[2]
        n == Max(Abs(dx), Abs(dy))
    IN  IF n = 0 THEN {a}
        ELSE {<<a[1] + (2 * k * dx + n) \div (2 * n),
                a[2] + (2 * k * dy + n) \div (2 * n)>> : k \in 0 .. n}

LinePixels(points) ==
    UNION {SegmentPixels(points[i], points[i + 1]) : i \in 1 .. Len(points) - 1}

\* A faulty composite: the overlay is black instead of white.
AlphaOverBlack(c, a) == (c * (ChannelMax - a)) \div ChannelMax

\* Image.alpha_composite of an overlay pixel (255, 255, 255, a) over an
\* opaque pixel of channel value c.
AlphaOver(c, a) ==
    IF a = 0 THEN c
    ELSE LET t == 128 * (ChannelMax * a + c * (ChannelMax - a)) + 16384
             d == ((t \div 256) + t) \div 256
         IN  d \div 128

\* Result of a layer: the buffer, both generator states, the raised error
\* ("" when the layer returned), the <<raw, stored>> channel writes, the
\* features drawn (none, unless the layer draws features) and the alpha of
\* the overlay composited (none, unless the layer composites one).
Result(im, py, np, err, wr) ==
    [img |-> im, py |-> py, np |-> np, err |-> err, writes |-> wr, feats |-> << >>,
     alpha |-> << >>]

----------------------------------------------------------------------------
(* Effect layers.  Each takes the buffer im over Pix(w, h) and the         *)
(* generator states it draws from.  The pipeline passes no seed to any     *)
(* layer, so every layer draws from the global generators as they stand.   *)

SetMax(S) == CHOOSE m \in S : \A x \in S : x <= m

Channels == 1 .. 3

\* Evaluation order: a function is tabulated, and v is computed before e.
Force(f) == f @@ << >>
Eval(v, e) == IF v = v THEN e ELSE e

\* The RGB triple of a per-channel function.
RGB(f) == <<f[1], f[2], f[3]>>

\* The <<raw, stored>> pairs of a layer that wrote stored for raw everywhere.
Writes(w, h, raw, stored) ==
    {<<raw[p][c], stored[p][c]>> : p \in Pix(w, h), c \in Channels}

\* apply_base_color: a uint8 array filled with color_rgb.
apply_base_color(w, h, color_rgb) ==
    Force([p \in Pix(w, h) |-> RGB([c \in Channels |-> AsUint8(color_rgb[c])])])

\* apply_simplex_noise(img_array, scale, intensity) with seed=None: the noise
\* seed is drawn from `random`; octave 1 is added and stored, then octave 2
\* (seed + 1, three times the frequency, half the intensity) is added to the
\* stored result.  scale is in units of 1/10000.
apply_simplex_noise(im, w, h, scale, intensity, py, np) ==
    LET seed == RandInt(py, 0, 10000)
        raw1 == Force([p \in Pix(w, h) |-> RGB([c \in Channels |->
                   (im[p][c] * 1000
                      + noise2(seed, p[1] * scale, p[2] * scale) * intensity)
                   \div 1000])])
        oct1 == Force([p \in Pix(w, h) |-> RGB([c \in Channels |-> clamp(raw1[p][c])])])
        raw2 == Force([p \in Pix(w, h) |-> RGB([c \in Channels |->
                   (oct1[p][c] * 2000
                      + noise2(seed + 1, p[1] * scale * 3, p[2] * scale * 3)
                          * intensity)
                   \div 2000])])
        oct2 == Force([p \in Pix(w, h) |-> RGB([c \in Channels |-> clamp(raw2[p][c])])])
    IN  Result(oct2, PyNext(py), np, "",
               Writes(w, h, raw1, oct1) \cup Writes(w, h, raw2, oct2))

\* apply_knockdown_splatter(img_array, intensity, blur_radius): one uniform
\* draw per pixel, thresholded, blurred, divided by its maximum, then
\* (mask - 0.5) * intensity * 50 is added to every channel and clipped.
SplatterMask(w, h, blur_radius, np) ==
    LET binary == Force([p \in Pix(w, h) |->
                     IF Out(NpAfter(np, Flat(p, w))) * 100
                          > KnockdownThreshold * OutRange
                     THEN 1000 ELSE 0])
        blurred == gaussian_filter(binary, w, h, blur_radius)
        top == SetMax({blurred[p] : p \in Pix(w, h)})
    IN  IF top > 0
        THEN Force([p \in Pix(w, h) |-> (blurred[p] * 1000) \div top])
        ELSE blurred

apply_knockdown_splatter(im, w, h, intensity, blur_radius, py, np) ==
    LET mask == SplatterMask(w, h, blur_radius, np)
        raw == Force([p \in Pix(w, h) |-> RGB([c \in Channels |->
                  (im[p][c] * 100000 + (mask[p] - 500) * intensity * KnockdownK)
                  \div 100000])])
        out == Force([p \in Pix(w, h) |-> RGB([c \in Channels |-> NpClip(raw[p][c])])])
    IN  Result(out, py, NpAfter(np, w * h), "", Writes(w, h, raw, out))

\* np.random.randint(-intensity, intensity + 1, (height, width, 3)) added to
\* the buffer in int16 and clipped.  randint raises ValueError when
\* low >= high, that is when intensity is negative.
WhiteNoise(im, w, h, intensity, py, np) ==
    IF -intensity >= intensity + 1
    THEN Result(im, py, np, "ValueError", {})
    ELSE LET raw == Force([p \in Pix(w, h) |-> RGB([c \in Channels |->
                       im[p][c] + NpRandInt(NpAfter(np, Flat(p, w) * 3 + (c - 1)),
                                            -intensity, intensity + 1)])])
             out == Force([p \in Pix(w, h) |-> RGB([c \in Channels |-> NpClip(raw[p][c])])])
         IN  Result(out, py, NpAfter(np, w * h * 3), "", Writes(w, h, raw, out))

apply_heavy_stipple(im, w, h, intensity, py, np) ==
    WhiteNoise(im, w, h, intensity, py, np)

apply_fine_grain(im, w, h, intensity, py, np) ==
    WhiteNoise(im, w, h, intensity, py, np)

\* draw.ellipse([x - r, y - r, x + r, y + r], fill=colour) on the image.
DrawDisk(cur, w, h, x, y, r, colour) ==
    Force([p \in Pix(w, h) |-> IF InDisk(p, x, y, r) THEN colour ELSE cur[p]])

\* int(c * factor) for every channel of a pixel; factor in thousandths.
Darken(pixel, factor) == RGB([c \in Channels |-> TruncDiv(pixel[c] * factor, 1000)])

\* A faulty count that ignores the area, as the count of apply_pores does.
PinholeCountFixed(w, h, density) == TruncDiv(PinholeArea * density, 100)

\* base_count of apply_pitting_pinholes: int((width * height) / 600 * density)
PinholeCount(w, h, density) == TruncDiv(w * h * density, PinholeArea * 100)

\* The loop of apply_pitting_pinholes.  src is img_array as the layer received
\* it (the colour is read from it); cur is the PIL image being drawn on.
\* ft lists the pinholes drawn: centre, radius, fill colour, and the colour
\* the image drawn on held at the centre just before.
RECURSIVE PinholeLoop(_, _, _, _, _, _, _, _)
PinholeLoop(k, src, cur, w, h, py, wr, ft) ==
    IF k <= 0 THEN [img |-> cur, py |-> py, writes |-> wr, feats |-> ft]
    ELSE LET x == RandInt(py, 0, w - 1)
             y == RandInt(PyNext(py), 0, h - 1)
             radius == RandInt(PyAfter(py, 2), 1, 4)
             pinhole_color == Darken(src[<<x, y>>], 400)
             drawn == DrawDisk(cur, w, h, x, y, radius, pinhole_color)
             py2 == PyAfter(py, 3)
             wr2 == wr \cup {<<pinhole_color[c], pinhole_color[c]>> : c \in Channels}
             ft2 == Append(ft, [kind |-> "pinhole", x |-> x, y |-> y, radius |-> radius,
                                colour |-> pinhole_color, current |-> cur[<<x, y>>]])
         IN  Eval(<<drawn, py2, wr2, ft2>>,
                  PinholeLoop(k - 1, src, drawn, w, h, py2, wr2, ft2))

apply_pitting_pinholes(im, w, h, density, py, np) ==
    LET r == PinholeLoop(PinholeCount(w, h, density), im, im, w, h, py, {}, << >>)
    IN  [Result(r.img, r.py, np, "", r.writes) EXCEPT !.feats = r.feats]

\* base_count of apply_rough_aggregate: int((width * height) / 800 * density)
AggregateCount(w, h, density) == TruncDiv(w * h * density, AggregateArea * 100)

\* The loop of apply_rough_aggregate: centre, size in [2, 8], a coin flip
\* between a darkening and a lightening factor, colour clamped.
RECURSIVE AggregateLoop(_, _, _, _, _, _, _)
AggregateLoop(k, src, cur, w, h, py, wr) ==
    IF k <= 0 THEN [img |-> cur, py |-> py, writes |-> wr]
    ELSE LET x == RandInt(py, 0, w - 1)
             y == RandInt(PyNext(py), 0, h - 1)
             size == RandInt(PyAfter(py, 2), 2, 8)
             darker == Out(PyAfter(py, 3)) * 2 > OutRange
             factor == IF darker THEN Uniform(PyAfter(py, 4), 500, 750)
                       ELSE Uniform(PyAfter(py, 4), 1250, 1500)
             raw == RGB([c \in Channels |-> (src[<<x, y>>][c] * factor) \div 1000])
             aggregate_color == RGB([c \in Channels |-> clamp(raw[c])])
             drawn == DrawDisk(cur, w, h, x, y, size \div 2, aggregate_color)
             py2 == PyAfter(py, 5)
             wr2 == wr \cup {<<raw[c], aggregate_color[c]>> : c \in Channels}
         IN  Eval(<<drawn, py2, wr2>>, AggregateLoop(k - 1, src, drawn, w, h, py2, wr2))

apply_rough_aggregate(im, w, h, density, py, np) ==
    LET r == AggregateLoop(AggregateCount(w, h, density), im, im, w, h, py, {})
    IN  Result(r.img, r.py, np, "", r.writes)

\* The patch loop of apply_color_variation: the set of circles <<cx, cy, radius>>.
RECURSIVE StainCircles(_, _, _, _)
StainCircles(k, w, h, py) ==
    IF k <= 0 THEN {}
    ELSE {<<RandInt(py, 0, w - 1), RandInt(PyNext(py), 0, h - 1),
            RandInt(PyAfter(py, 2), 20, 80)>>}
         \cup StainCircles(k - 1, w, h, PyAfter(py, 3))

\* A faulty mask that keeps the noise value above zero: a soft gradient.
SoftThreshold(noise_val) == Max(0, noise_val)

\* (stain_mask > threshold).astype(float32) of one noise value, thousandths.
Threshold(noise_val) == IF noise_val > StainThreshold THEN 1000 ELSE 0

\* A faulty mask: np.minimum in place of np.maximum, so that a pixel is
\* stained only where the noise and a circle agree.
StainMaskMinimum(w, h, patch_count, scale, seed, py) ==
    LET circles == StainCircles(patch_count, w, h, py)
    IN  Force([p \in Pix(w, h) |->
           Min(Threshold(noise2(seed, p[1] * scale, p[2] * scale)),
               IF \E ci \in circles : InDisk(p, ci[1], ci[2], ci[3])
               THEN 1000 ELSE 0)])

\* stain_mask of apply_color_variation (thousandths): the thresholded noise,
\* then np.maximum with every circle mask.  py is the state after the draw of
\* the noise seed.
StainMask(w, h, patch_count, scale, seed, py) ==
    LET circles == StainCircles(patch_count, w, h, py)
    IN  Force([p \in Pix(w, h) |->
           Max(Threshold(noise2(seed, p[1] * scale, p[2] * scale)),
               IF \E ci \in circles : InDisk(p, ci[1], ci[2], ci[3])
               THEN 1000 ELSE 0)])

\* apply_color_variation(img_array, patch_count, scale, intensity) with
\* seed=None: the seed is drawn from `random`, and numpy's generator is
\* re-seeded with it.
apply_color_variation(im, w, h, patch_count, scale, intensity, py, np) ==
    LET seed == RandInt(py, 0, 10000)
        mask == StainMask(w, h, patch_count, scale, seed, PyNext(py))
        raw == Force([p \in Pix(w, h) |-> RGB([c \in Channels |->
                  (im[p][c] * 1000 - mask[p] * intensity) \div 1000])])
        out == Force([p \in Pix(w, h) |-> RGB([c \in Channels |-> NpClip(raw[p][c])])])
    IN  [img |-> out, py |-> PyAfter(py, 1 + 3 * Max(patch_count, 0)),
         np |-> NpSeed(seed), err |-> "", writes |-> Writes(w, h, raw, out),
         feats |-> << >>, alpha |-> << >>, mask |-> mask, seed |-> seed,
         circles |-> StainCircles(patch_count, w, h, PyNext(py))]

\* np.cos(np.radians(angle)) and np.sin, thousandths, on a 45-degree grid.
CosTable == <<1000, 707, 0, -707, -1000, -707, 0, 707>>
Cos1000(deg) == CosTable[((((deg % 360) + 22) \div 45) % 8) + 1]
Sin1000(deg) == Cos1000(deg - 90)

\* A faulty bounds test that forgets the right and bottom edges.
InBoundsNoUpper(x, y, w, h) == 0 <= x /\ 0 <= y

InBounds(x, y, w, h) == 0 <= x /\ x < w * 1000 /\ 0 <= y /\ y < h * 1000

\* draw.line(points, fill=colour, width=1) on the image.
DrawLine(cur, w, h, points, colour) ==
    LET on == LinePixels(points)
    IN  Force([p \in Pix(w, h) |-> IF p \in on THEN colour ELSE cur[p]])

\* The inner loop of a branch (lines 244-250): positions in thousandths of a
\* pixel, one draw for the angle and one for each coordinate's step.
RECURSIVE BranchWalk(_, _, _, _, _, _, _, _)
BranchWalk(k, bx, by, ang, w, h, py, pts) ==
    IF k <= 0 THEN [points |-> pts, py |-> py, spawn |-> << >>]
    ELSE LET a == ang + Uniform(py, -60, 60)
             nx == bx + (Cos1000(a) * Uniform(PyNext(py), 500, 1500)) \div 1000
             ny == by + (Sin1000(a) * Uniform(PyAfter(py, 2), 500, 1500)) \div 1000
             py2 == PyAfter(py, 3)
             pts2 == IF InBounds(nx, ny, w, h)
                     THEN Append(pts, <<nx \div 1000, ny \div 1000>>)
                     ELSE pts
         IN  Eval(<<a, nx, ny, py2, pts2>>,
                  BranchWalk(k - 1, nx, ny, a, w, h, py2, pts2))

\* Lines 252-255: a branch with more than one point is drawn at once, in
\* 0.6 x the colour that img_array holds at its first point.
BranchDraw(r, src, cur, w, h) ==
    [img |-> IF Len(r.points) > 1
             THEN DrawLine(cur, w, h, r.points, Darken(src[r.points[1]], 600))
             ELSE cur,
     py |-> r.py,
     points |-> r.points,
     colour |-> Darken(src[r.points[1]], 600),
     current |-> cur[r.points[1]],
     spawn |-> r.spawn]

\* A branch spawned at (x, y) (lines 236-255): the start is clamped into the
\* image.  spawn keeps the position of the walk at which it was spawned.
Branch(x, y, angle, src, cur, w, h, py) ==
    LET bx == Max(0, Min((w - 1) * 1000, x))
        by == Max(0, Min((h - 1) * 1000, y))
    IN  BranchDraw([BranchWalk(RandInt(py, 3, 10), bx, by,
                               angle + Uniform(PyNext(py), -90, 90), w, h,
                               PyAfter(py, 2), <<(<<bx \div 1000, by \div 1000>>)>>)
                       EXCEPT !.spawn = <<x, y>>],
                   src, cur, w, h)

\* One iteration of the walk of a crack (lines 223-255).  cs is the state of
\* the walk: step index i, position (x, y) in thousandths, heading, the image
\* drawn on, the generator, the crack's points, the polylines drawn so far.
\* CrackMove is the move to (nx, ny) with heading a; CrackBranch what the
\* iteration leaves once its branch b (if any) is drawn.
CrackBranch(cs, nx, ny, a, pts, b) ==
    [i |-> cs.i + 1, x |-> nx, y |-> ny, angle |-> a, img |-> b.img, py |-> b.py,
     points |-> pts,
     drawn |-> IF Len(b.points) > 1
               THEN Append(cs.drawn, [kind |-> "branch", points |-> b.points,
                                      colour |-> b.colour, current |-> b.current,
                                      spawn |-> b.spawn])
               ELSE cs.drawn]

CrackMove(cs, nx, ny, a, src, w, h, py) ==
    CrackBranch(cs, nx, ny, a,
                IF InBounds(nx, ny, w, h)
                THEN Append(cs.points, <<nx \div 1000, ny \div 1000>>)
                ELSE cs.points,
                IF cs.i > 5 /\ Out(py) * 10 < OutRange
                THEN Branch(nx, ny, a, src, cs.img, w, h, PyNext(py))
                ELSE [img |-> cs.img, py |-> IF cs.i > 5 THEN PyNext(py) ELSE py,
                      points |-> << >>])

CrackStep(cs, src, w, h) ==
    LET a == cs.angle + Uniform(cs.py, -80, 80)
        step_size == Uniform(PyNext(cs.py), 500, 2000)
    IN  CrackMove(cs, cs.x + (Cos1000(a) * step_size) \div 1000,
                  cs.y + (Sin1000(a) * step_size) \div 1000, a,
                  src, w, h, PyAfter(cs.py, 2))

\* n iterations of the walk, one after another.
RECURSIVE CrackSteps(_, _, _, _, _)
CrackSteps(cs, n, src, w, h) ==
    IF n <= 0 THEN cs
    ELSE IF n = 1 THEN CrackStep(cs, src, w, h)
    ELSE LET half == CrackSteps(cs, n \div 2, src, w, h)
         IN  Eval(half, CrackSteps(half, n - n \div 2, src, w, h))

\* Lines 257-262: a crack with more than one point is drawn, in 0.6 x the
\* colour img_array holds at its first point.
CrackDraw(r, src, w, h) ==
    IF Len(r.points) > 1
    THEN [img |-> DrawLine(r.img, w, h, r.points, Darken(src[r.points[1]], 600)),
          py |-> r.py,
          drawn |-> Append(r.drawn, [kind |-> "crack", points |-> r.points,
                                     colour |-> Darken(src[r.points[1]], 600),
                                     current |-> r.img[r.points[1]],
                                     spawn |-> <<r.points[1][1] * 1000,
                                                 r.points[1][2] * 1000>>])]
    ELSE [img |-> r.img, py |-> r.py, drawn |-> r.drawn]

\* The loop of apply_cracks over the cracks: start, length, heading, the
\* walk, then the crack itself.
RECURSIVE CrackLoop(_, _, _, _, _, _, _)
RECURSIVE CrackNext(_, _, _, _, _)

CrackNext(k, src, w, h, d) ==
    Eval(d, CrackLoop(k, src, d.img, w, h, d.py, d.drawn))

CrackLoop(k, src, cur, w, h, py, drawn) ==
    IF k <= 0 THEN [img |-> cur, py |-> py, drawn |-> drawn]
    ELSE LET x == RandInt(py, 0, w - 1)
             y == RandInt(PyNext(py), 0, h - 1)
         IN  CrackNext(k - 1, src, w, h,
                       CrackDraw(CrackSteps([i |-> 0, x |-> x * 1000, y |-> y * 1000,
                                             angle |-> Uniform(PyAfter(py, 3), 0, 360),
                                             img |-> cur, py |-> PyAfter(py, 4),
                                             points |-> <<(<<x, y>>)>>,
                                             drawn |-> drawn],
                                            RandInt(PyAfter(py, 2), 15, 60),
                                            src, w, h),
                                 src, w, h))

CrackCount(density) == TruncDiv(CrackBase * density, 100)

apply_cracks(im, w, h, density, py, np) ==
    LET r == CrackLoop(CrackCount(density), im, im, w, h, py, << >>)
    IN  [Result(r.img, r.py, np, "", {}) EXCEPT !.feats = r.drawn]

\* The loop of apply_pores: centre, size in [size_range[0], size_range[1]]
\* (random.randint raises ValueError on an empty range), colour 0.4 x the
\* colour img_array holds at the centre, disk of radius size // 2.
RECURSIVE PoreLoop(_, _, _, _, _, _, _, _, _)
PoreLoop(k, src, cur, w, h, lo, hi, py, ft) ==
    IF k <= 0 THEN [img |-> cur, py |-> py, err |-> "", feats |-> ft]
    ELSE IF lo > hi THEN [img |-> cur, py |-> PyAfter(py, 2), err |-> "ValueError",
                          feats |-> ft]
    ELSE LET x == RandInt(py, 0, w - 1)
             y == RandInt(PyNext(py), 0, h - 1)
             size == RandInt(PyAfter(py, 2), lo, hi)
             pore_color == Darken(src[<<x, y>>], 400)
             drawn == DrawDisk(cur, w, h, x, y, size \div 2, pore_color)
             py2 == PyAfter(py, 3)
             ft2 == Append(ft, [kind |-> "pore", x |-> x, y |-> y, radius |-> size \div 2,
                                colour |-> pore_color, current |-> cur[<<x, y>>]])
         IN  Eval(<<drawn, py2, ft2>>,
                  PoreLoop(k - 1, src, drawn, w, h, lo, hi, py2, ft2))

apply_pores(im, w, h, count, lo, hi, py, np) ==
    LET r == PoreLoop(count, im, im, w, h, lo, hi, py, << >>)
    IN  [Result(IF r.err = "" THEN r.img ELSE im, r.py, np, r.err, {})
            EXCEPT !.feats = r.feats]

\* The patch loop of apply_dust_haze: the alpha channel of the overlay after
\* the ellipses were drawn (a later ellipse replaces the alpha under it).
\* ft lists the ellipses: centre, radius, alpha, and the generator state from
\* which the centre was drawn.
RECURSIVE HazeLoop(_, _, _, _, _, _)
HazeLoop(k, alpha, w, h, py, ft) ==
    IF k <= 0 THEN [alpha |-> alpha, py |-> py, feats |-> ft]
    ELSE LET x == RandInt(py, -50, w)
             y == RandInt(PyNext(py), -50, h)
             size == RandInt(PyAfter(py, 2), 50, 150)
             a == RandInt(PyAfter(py, 3), 10, HazeAlphaMax)
             drawn == Force([p \in Pix(w, h) |->
                               IF InDisk(p, x, y, size) THEN a ELSE alpha[p]])
             py2 == PyAfter(py, 4)
             ft2 == Append(ft, [kind |-> "haze", x |-> x, y |-> y, radius |-> size,
                                alpha |-> a, py |-> py])
         IN  Eval(<<drawn, py2, ft2>>, HazeLoop(k - 1, drawn, w, h, py2, ft2))

\* apply_dust_haze: white overlay, blurred, composited over the image.
apply_dust_haze(im, w, h, patch_count, py, np) ==
    LET r == HazeLoop(patch_count, Force([p \in Pix(w, h) |-> 0]), w, h, py, << >>)
        blurred == Blur(r.alpha, w, h, HazeBlurRadius * 100)
        out == Force([p \in Pix(w, h) |->
                        RGB([c \in Channels |-> AlphaOver(im[p][c], blurred[p])])])
    IN  [Result(out, r.py, np, "", Writes(w, h, out, out))
            EXCEPT !.feats = r.feats, !.alpha = blurred]

----------------------------------------------------------------------------
(* generate_concrete_texture (lines 442-542) *)

\* A faulty order: the grain layers before knockdown.
NextStepGrainFirst(step) ==
    CASE step = "base" -> "noise"
      [] step = "noise" -> "stipple"
      [] step = "stipple" -> "grain"
      [] step = "grain" -> "knockdown"
      [] step = "knockdown" -> "pitting"
      [] step = "pitting" -> "aggregate"
      [] step = "aggregate" -> "staining"
      [] step = "staining" -> "cracks"
      [] step = "cracks" -> "pores"
      [] step = "pores" -> "haze"
      [] step = "haze" -> "done"

\* The statement that follows each step of generate_concrete_texture.
NextStep(step) ==
    CASE step = "base" -> "noise"
      [] step = "noise" -> "knockdown"
      [] step = "knockdown" -> "stipple"
      [] step = "stipple" -> "grain"
      [] step = "grain" -> "pitting"
      [] step = "pitting" -> "aggregate"
      [] step = "aggregate" -> "staining"
      [] step = "staining" -> "cracks"
      [] step = "cracks" -> "pores"
      [] step = "pores" -> "haze"
      [] step = "haze" -> "done"

\* The call each step makes, with the magnitudes derived from the arguments
\* (lines 481-540).  a is the argument record, im the current img_array.
CallBase(a, im, py, np) ==
    Result(apply_base_color(a.width, a.height, hex_to_rgb(a.base_color).rgb),
           py, np, "", {})

CallNoise(a, im, py, np) ==
    apply_simplex_noise(im, a.width, a.height, a.noise_scale, TonalIntensity, py, np)

CallKnockdown(a, im, py, np) ==
    apply_knockdown_splatter(im, a.width, a.height, a.knockdown_intensity,
                             a.knockdown_scale, py, np)

\* A faulty call of the stipple layer: the intensity is left at the default
\* of apply_heavy_stipple (40) instead of being scaled by roughness.
CallStippleDefault(a, im, py, np) ==
    apply_heavy_stipple(im, a.width, a.height, 40, py, np)

CallStipple(a, im, py, np) ==
    apply_heavy_stipple(im, a.width, a.height,
                        TruncDiv(StippleScale * a.roughness, 100), py, np)

CallGrain(a, im, py, np) ==
    apply_fine_grain(im, a.width, a.height,
                     TruncDiv(FineGrainScale * a.roughness, 100), py, np)

CallPitting(a, im, py, np) ==
    apply_pitting_pinholes(im, a.width, a.height, a.pitting, py, np)

CallAggregate(a, im, py, np) ==
    apply_rough_aggregate(im, a.width, a.height, a.aggregate_density, py, np)

StainIntensity(a) == TruncDiv(StainScale * a.staining_intensity, 100)

CallStaining(a, im, py, np) ==
    apply_color_variation(im, a.width, a.height, StainPatches, StainNoiseScale,
                          StainIntensity(a), py, np)

CallCracks(a, im, py, np) ==
    apply_cracks(im, a.width, a.height, a.cracks, py, np)

\* A faulty call of the pore layer: one pore more than floor(600 x pitting).
CallPoresOneMore(a, im, py, np) ==
    apply_pores(im, a.width, a.height, TruncDiv(PoreBase * a.pitting, 100) + 1,
                TruncDiv(a.pitting_size, 100), TruncDiv(3 * a.pitting_size, 100),
                py, np)

CallPores(a, im, py, np) ==
    apply_pores(im, a.width, a.height, TruncDiv(PoreBase * a.pitting, 100),
                TruncDiv(a.pitting_size, 100), TruncDiv(3 * a.pitting_size, 100),
                py, np)

CallHaze(a, im, py, np) ==
    apply_dust_haze(im, a.width, a.height, HazePatches, py, np)

ApplyLayer(step, a, im, py, np) ==
    CASE step = "base" -> CallBase(a, im, py, np)
      [] step = "noise" -> CallNoise(a, im, py, np)
      [] step = "knockdown" -> CallKnockdown(a, im, py, np)
      [] step = "stipple" -> CallStipple(a, im, py, np)
      [] step = "grain" -> CallGrain(a, im, py, np)
      [] step = "pitting" -> CallPitting(a, im, py, np)
      [] step = "aggregate" -> CallAggregate(a, im, py, np)
      [] step = "staining" -> CallStaining(a, im, py, np)
      [] step = "cracks" -> CallCracks(a, im, py, np)
      [] step = "pores" -> CallPores(a, im, py, np)
      [] step = "haze" -> CallHaze(a, im, py, np)

\* A faulty seeding: numpy's generator is left as it stands.
SeedOnlyRandom(a, py, np) ==
    IF a.seeded THEN [py |-> PySeed(a.seed), np |-> np]
    ELSE [py |-> py, np |-> np]

\* Lines 469-474: the colour is converted first, then both global generators
\* are seeded when a seed was given.
SeedGenerators(a, py, np) ==
    IF a.seeded THEN [py |-> PySeed(a.seed), np |-> NpSeed(a.seed)]
    ELSE [py |-> py, np |-> np]

----------------------------------------------------------------------------
(* Callers and their arguments *)

DefaultColour == <<"#", "8", "C", "8", "6", "8", "0">>

Colours == {
    <<"#", "8", "C", "8", "6", "8", "0">>,
    <<"4", "A", "4", "A", "4", "A">>,
    <<"#", "F", "F", "8", "0", "0", "0">>,
    <<"#", "8", "C", "8", "6", "8", "0", "1">>,
    <<"#", "8", "C", "8", "6", "8">>,
    <<"#", "#", "8", "C", "8", "6", "8", "0">>,
    <<"#", "8", "C", "8", "6", "+", "8">>,
    <<"#", "8", "C", "8", "6", " ", "8">>,
    <<"#", "8", "C", "8", "6">>,
    <<"#", "8", "C", "8", "6", "8", "g">>}

\* Style arguments in hundredths.  Densities are kept low so that the loops
\* of the pore and crack layers stay short.
Style0 ==
    [roughness |-> 100, pitting |-> 1, cracks |-> 5, knockdown_intensity |-> 90,
     knockdown_scale |-> 300, pitting_size |-> 100, aggregate_density |-> 100,
     staining_intensity |-> 100, noise_scale |-> 100]

\* Every effect off, the other arguments at the low end of their range.
StyleMin ==
    [roughness |-> 0, pitting |-> 0, cracks |-> 0, knockdown_intensity |-> 0,
     knockdown_scale |-> 100, pitting_size |-> 50, aggregate_density |-> 0,
     staining_intensity |-> 0, noise_scale |-> 50]

Styles ==
    {Style0, StyleMin}
    \cup {[Style0 EXCEPT !.roughness = v] : v \in {-100, 0, 200, 300}}
    \cup {[Style0 EXCEPT !.knockdown_intensity = v] : v \in {-50, 0, 150}}
    \cup {[Style0 EXCEPT !.knockdown_scale = v] : v \in {-100, 100, 500}}
    \cup {[Style0 EXCEPT !.pitting = v] : v \in {-100, 0, 2}}
    \cup {[Style0 EXCEPT !.pitting_size = v] : v \in {-50, 50, 200}}
    \cup {[Style0 EXCEPT !.aggregate_density = v] : v \in {0, 200}}
    \cup {[Style0 EXCEPT !.cracks = v] : v \in {-100, 0, 10}}
    \cup {[Style0 EXCEPT !.staining_intensity = v] : v \in {-100, 0, 200}}
    \cup {[Style0 EXCEPT !.noise_scale = v] : v \in {50, 200}}

\* The declared range of each style argument (docstring, lines 454-463).
StyleRange ==
    [roughness |-> <<0, 200>>, pitting |-> <<0, 200>>, cracks |-> <<0, 200>>,
     knockdown_intensity |-> <<0, 100>>, knockdown_scale |-> <<100, 500>>,
     pitting_size |-> <<50, 200>>, aggregate_density |-> <<0, 200>>,
     staining_intensity |-> <<0, 200>>, noise_scale |-> <<50, 200>>]

StyleNames == DOMAIN StyleRange

InRange(st) == \A n \in StyleNames : StyleRange[n][1] <= st[n] /\ st[n] <= StyleRange[n][2]

Seeds == {[seeded |-> FALSE, seed |-> 0], [seeded |-> TRUE, seed |-> 42],
          [seeded |-> TRUE, seed |-> 43]}

MkArgs(via, colour, w, h, sd, st) ==
    [via |-> via, base_color |-> colour, width |-> w, height |-> h,
     seeded |-> sd.seeded, seed |-> sd.seed,
     roughness |-> st.roughness, pitting |-> st.pitting, cracks |-> st.cracks,
     knockdown_intensity |-> st.knockdown_intensity,
     knockdown_scale |-> st.knockdown_scale, pitting_size |-> st.pitting_size,
     aggregate_density |-> st.aggregate_density,
     staining_intensity |-> st.staining_intensity, noise_scale |-> st.noise_scale]

\* main() (lines 604-619, 653-662): roughness, splatter, pitting and cracks
\* are clamped; the other style arguments keep the defaults of
\* generate_concrete_texture; width and height are passed as given.
CliArgs(colour, w, h, sd, st) ==
    MkArgs("cli", colour, w, h, sd,
           [roughness |-> Max(0, Min(200, st.roughness)),
            pitting |-> Max(0, Min(200, st.pitting)),
            cracks |-> Max(0, Min(200, st.cracks)),
            knockdown_intensity |-> Max(0, Min(100, st.knockdown_intensity)),
            knockdown_scale |-> 300, pitting_size |-> 100,
            aggregate_density |-> 100, staining_intensity |-> 100,
            noise_scale |-> 100])

CliStyles ==
    {Style0, [Style0 EXCEPT !.roughness = -100], [Style0 EXCEPT !.roughness = 300],
     [Style0 EXCEPT !.knockdown_intensity = 150], [Style0 EXCEPT !.cracks = -100]}

ArgChoices ==
    {MkArgs("direct", DefaultColour, MaxDim, MaxDim, sd, st) : sd \in Seeds, st \in Styles}
    \cup {MkArgs("direct", col, MaxDim, MaxDim, sd, Style0) : col \in Colours, sd \in Seeds}
    \cup {MkArgs("direct", DefaultColour, w, h, sd, Style0) :
            w \in 1 .. MaxDim, h \in 1 .. MaxDim, sd \in Seeds}
    \cup {CliArgs(DefaultColour, MaxDim, MaxDim, sd, st) : sd \in Seeds, st \in CliStyles}

NoArgs == MkArgs("none", << >>, 0, 0, [seeded |-> FALSE, seed |-> 0], Style0)

NoStain == [mask |-> << >>, intensity |-> 0, width |-> 0, height |-> 0,
            seed |-> 0, circles |-> {}]
NoUnit == [pc |-> "none", width |-> 0, height |-> 0, density |-> 0,
           count |-> 0, count4 |-> 0]

\* generate_concrete_texture as a function of its arguments when nothing else
\* touches the generators: the steps one after another, from the state in
\* which the seeding leaves the generators.
RECURSIVE RunFrom(_, _, _, _, _)
RunFrom(step, a, im, py, np) ==
    IF step = "done" THEN im
    ELSE LET r == ApplyLayer(step, a, im, py, np)
         IN  IF r.err # "" THEN im
             ELSE RunFrom(NextStep(step), a, r.img, r.py, r.np)

Alone(a, py, np) ==
    LET g == SeedGenerators(a, py, np)
    IN  RunFrom("base", a, NoImg, g.py, g.np)

----------------------------------------------------------------------------
(* The preview window, ConcreteTextureApp of concrete_texture_app.py.  An   *)
(* image is represented by the parameter values it was generated from.      *)
(* params keeps two of its keys: 'color', which the generation thread reads *)
(* first (line 451), and 'roughness', which it reads with the sliders       *)
(* (lines 454-462).  Slider values are in hundredths.                       *)

AppDefaultColour == <<"#", "8", "c", "8", "6", "8", "0">>
PresetColour == <<"#", "C", "8", "C", "4", "B", "C">>
AppRoughness == 100

DefaultParams == [color |-> AppDefaultColour, roughness |-> AppRoughness]
NoPreview == [color |-> << >>, roughness |-> -1]

\* What the user types into the colour entry.
EntryTexts == {
    <<"b", "0", "b", "0", "b", "0">>,
    <<" ", "#", "c", "0", "c", "0", "c", "0", " ">>,
    <<"z", "z", "z", "z", "z", "z">>,
    <<"8", "c", "8", "6", "8">>,
    <<"8", "c", "8", "6", "8", "0", "8", "c", "8", "6", "8", "0">> }

\* Positions the user drags the roughness slider to.
SliderValues == {50, 150}

\* str.strip() for the blank.
Strip(s) == RStrip(LStrip(s, " "), " ")

\* '#' followed by exactly six hexadecimal digits.
HashSixHex(s) ==
    Len(s) = 7 /\ Head(s) = "#" /\ \A i \in 2 .. 7 : IsHexDigit(s[i])

\* The strings beginning with '#' that Tk accepts for fill=: 3, 6, 9 or 12
\* hexadecimal digits; for any other create_rectangle raises TclError.
TkColourOk(s) ==
    /\ Len(s) > 0
    /\ Head(s) = "#"
    /\ Len(s) - 1 \in {3, 6, 9, 12}
    /\ \A i \in 2 .. Len(s) : IsHexDigit(s[i])

\* The attributes of the window (lines 22-46, 75), the canvas and the swatch.
NoApp == [params |-> DefaultParams, generation_pending |-> FALSE,
          current_preview |-> NoPreview, canvas |-> NoPreview,
          status |-> "Ready", dialog |-> "", swatch |-> AppDefaultColour]

\* Tk's event loop: the generate_preview of line 52 not yet run, the
\* check_and_generate callbacks not yet run, the generate_preview calls inside
\* root.update(), the callbacks posted by threads, the threads started.
NoTk == [initial |-> FALSE, timers |-> 0, frames |-> 0, displays |-> << >>,
         spawned |-> 0]

\* A generation thread: position in _generate_preview_thread and the values
\* it has read from params.
NoWorker == [pc |-> "unborn", color |-> << >>, roughness |-> -1]

\* Observations: user changes made; generations started by callbacks and
\* callbacks that did nothing since the last schedule_generation; a callback
\* started a generation when generation_pending was false; the values params
\* has held; and, for the last run of update_color_from_entry, params['color']
\* before it, whether it scheduled, and the value it assigned.
NoHist == [changes |-> 0, started |-> 0, idle |-> 0, badStart |-> FALSE,
           seen |-> {DefaultParams}, before |-> << >>, scheduled |-> FALSE,
           entrySet |-> << >>]

Workers == 1 .. MaxChanges + 1

guiVars == <<app, tk, workers, hist>>

\* No window: the generator is used on its own.
IdleGui ==
    /\ app = NoApp
    /\ tk = NoTk
    /\ workers = [i \in Workers |-> NoWorker]
    /\ hist = NoHist

----------------------------------------------------------------------------
(* State machine *)

Finished(t) == pc[t] \in {"done", "error"}

InitPy == {s \in 0 .. RngMod - 1 : s % 32 = 5}
InitNp == {s \in 0 .. RngMod - 1 : s % 32 = 3}

InitCalls ==
    /\ pc = [t \in Calls |-> "idle"]
    /\ args = [t \in Calls |-> NoArgs]
    /\ img = [t \in Calls |-> NoImg]
    /\ log = [t \in Calls |-> << >>]
    /\ writes = [t \in Calls |-> {}]
    /\ entry = [t \in Calls |-> <<0, 0>>]
    /\ firstDraw = [t \in Calls |-> -1]
    /\ stain = [t \in Calls |-> NoStain]
    /\ feats = [t \in Calls |-> << >>]
    /\ overlay = [t \in Calls |-> << >>]
    /\ disturbed = 0
    /\ turn = 0
    /\ preempts = 0

Init ==
    /\ pyRandom \in InitPy
    /\ npRandom \in InitNp
    /\ InitCalls
    /\ unit = NoUnit
    /\ IdleGui

\* The call of thread t gets to run.  Taking over from a call that has not
\* ended is a preemption (only threads do that); the model follows schedules
\* with at most MaxPreempt of them.
Scheduled(t) ==
    /\ turn' = t
    /\ IF turn \in {0, t} \/ Finished(turn)
       THEN preempts' = preempts
       ELSE /\ preempts < MaxPreempt
            /\ preempts' = preempts + 1

\* A caller invokes generate_concrete_texture.
Begin(t, a) ==
    /\ pc[t] = "idle"
    /\ pc' = [pc EXCEPT ![t] = "enter"]
    /\ args' = [args EXCEPT ![t] = a]
    /\ entry' = [entry EXCEPT ![t] = <<pyRandom, npRandom>>]
    /\ Scheduled(t)
    /\ UNCHANGED <<pyRandom, npRandom, img, log, writes, firstDraw, stain, feats,
                   overlay, disturbed, unit>>
    /\ UNCHANGED guiVars

Call ==
    /\ \A t \in Calls : pc[t] = "idle"
    /\ \E a \in ArgChoices : Begin(1, a)

\* The caller repeats the call with the same arguments once the first ended.
CallAgain ==
    /\ Finished(1)
    /\ Begin(2, args[1])

\* Other code draws from `random` between the calls (random.choice of
\* line 635, the GUI's randomize_parameters).
Disturb ==
    /\ Finished(1)
    /\ pc[2] = "idle"
    /\ disturbed < MaxDisturb
    /\ pyRandom' = PyNext(pyRandom)
    /\ disturbed' = disturbed + 1
    /\ UNCHANGED <<npRandom, pc, args, img, log, writes, entry, firstDraw, stain, feats,
                   overlay, unit, turn, preempts>>
    /\ UNCHANGED guiVars

\* Lines 469-474.
Enter(t) ==
    /\ pc[t] = "enter"
    /\ IF hex_to_rgb(args[t].base_color).ok
       THEN LET g == SeedGenerators(args[t], pyRandom, npRandom)
            IN  /\ pyRandom' = g.py
                /\ npRandom' = g.np
                /\ pc' = [pc EXCEPT ![t] = "base"]
       ELSE /\ pc' = [pc EXCEPT ![t] = "error"]
            /\ UNCHANGED <<pyRandom, npRandom>>
    /\ Scheduled(t)
    /\ UNCHANGED <<args, img, log, writes, entry, firstDraw, stain, feats, overlay,
                   disturbed, unit>>
    /\ UNCHANGED guiVars

\* One step of lines 481-540: the layer ran on img_array with result r, which
\* is assigned to img_array; an exception raised by the layer ends the call.
LayerStep(t, step, r) ==
    /\ pyRandom' = r.py
    /\ npRandom' = r.np
    /\ IF r.err = ""
       THEN /\ pc' = [pc EXCEPT ![t] = NextStep(step)]
            /\ img' = [img EXCEPT ![t] = r.img]
            /\ log' = [log EXCEPT ![t] =
                         Append(@, [layer |-> step, input |-> img[t],
                                    output |-> r.img])]
            /\ writes' = [writes EXCEPT ![t] = r.writes]
            /\ feats' = [feats EXCEPT ![t] = r.feats]
            /\ overlay' = [overlay EXCEPT ![t] = r.alpha]
       ELSE /\ pc' = [pc EXCEPT ![t] = "error"]
            /\ UNCHANGED <<img, log, writes, feats, overlay>>
    /\ Scheduled(t)
    /\ UNCHANGED <<args, entry, disturbed, unit>>
    /\ UNCHANGED guiVars

BaseFill(t) ==
    /\ pc[t] = "base"
    /\ LayerStep(t, "base", CallBase(args[t], img[t], pyRandom, npRandom))
    /\ UNCHANGED <<firstDraw, stain>>

\* The first draw a call makes from `random` is the noise seed of line 101.
TonalNoise(t) ==
    /\ pc[t] = "noise"
    /\ LayerStep(t, "noise", CallNoise(args[t], img[t], pyRandom, npRandom))
    /\ firstDraw' = [firstDraw EXCEPT ![t] = RandInt(pyRandom, 0, 10000)]
    /\ UNCHANGED stain

Knockdown(t) ==
    /\ pc[t] = "knockdown"
    /\ LayerStep(t, "knockdown", CallKnockdown(args[t], img[t], pyRandom, npRandom))
    /\ UNCHANGED <<firstDraw, stain>>

Stipple(t) ==
    /\ pc[t] = "stipple"
    /\ LayerStep(t, "stipple", CallStipple(args[t], img[t], pyRandom, npRandom))
    /\ UNCHANGED <<firstDraw, stain>>

FineGrain(t) ==
    /\ pc[t] = "grain"
    /\ LayerStep(t, "grain", CallGrain(args[t], img[t], pyRandom, npRandom))
    /\ UNCHANGED <<firstDraw, stain>>

Pitting(t) ==
    /\ pc[t] = "pitting"
    /\ LayerStep(t, "pitting", CallPitting(args[t], img[t], pyRandom, npRandom))
    /\ UNCHANGED <<firstDraw, stain>>

Aggregate(t) ==
    /\ pc[t] = "aggregate"
    /\ LayerStep(t, "aggregate", CallAggregate(args[t], img[t], pyRandom, npRandom))
    /\ UNCHANGED <<firstDraw, stain>>

Staining(t) ==
    /\ pc[t] = "staining"
    /\ LET r == CallStaining(args[t], img[t], pyRandom, npRandom)
       IN  /\ LayerStep(t, "staining", r)
           /\ stain' = [stain EXCEPT ![t] =
                          [mask |-> r.mask, intensity |-> StainIntensity(args[t]),
                           width |-> args[t].width, height |-> args[t].height,
                           seed |-> r.seed, circles |-> r.circles]]
    /\ UNCHANGED firstDraw

Cracks(t) ==
    /\ pc[t] = "cracks"
    /\ LayerStep(t, "cracks", CallCracks(args[t], img[t], pyRandom, npRandom))
    /\ UNCHANGED <<firstDraw, stain>>

Pores(t) ==
    /\ pc[t] = "pores"
    /\ LayerStep(t, "pores", CallPores(args[t], img[t], pyRandom, npRandom))
    /\ UNCHANGED <<firstDraw, stain>>

DustHaze(t) ==
    /\ pc[t] = "haze"
    /\ LayerStep(t, "haze", CallHaze(args[t], img[t], pyRandom, npRandom))
    /\ UNCHANGED <<firstDraw, stain>>

Pipeline(t) ==
    \/ Enter(t)
    \/ BaseFill(t)
    \/ TonalNoise(t)
    \/ Knockdown(t)
    \/ Stipple(t)
    \/ FineGrain(t)
    \/ Pitting(t)
    \/ Aggregate(t)
    \/ Staining(t)
    \/ Cracks(t)
    \/ Pores(t)
    \/ DustHaze(t)

\* An image that is not flat, for direct calls of a layer.
TestImage(w, h, base) ==
    Force([p \in Pix(w, h) |->
             RGB([c \in Channels |-> (base + 10 * p[1] + 5 * p[2] + 20 * c) % 256])])

\* The arguments of a direct call of one layer function on a w x h buffer.
LayerArgs(w, h) == [NoArgs EXCEPT !.via = "layer", !.width = w, !.height = h]

\* A direct call of one layer function on a test image.
Returned(name, a, im, r) ==
    /\ pyRandom' = r.py
    /\ npRandom' = r.np
    /\ pc' = [pc EXCEPT ![1] = "returned"]
    /\ args' = [args EXCEPT ![1] = a]
    /\ img' = [img EXCEPT ![1] = r.img]
    /\ log' = [log EXCEPT ![1] = <<[layer |-> name, input |-> im, output |-> r.img]>>]
    /\ writes' = [writes EXCEPT ![1] = r.writes]
    /\ feats' = [feats EXCEPT ![1] = r.feats]
    /\ overlay' = [overlay EXCEPT ![1] = r.alpha]
    /\ entry' = [entry EXCEPT ![1] = <<pyRandom, npRandom>>]
    /\ UNCHANGED <<firstDraw, disturbed, unit, turn, preempts>>
    /\ UNCHANGED guiVars

\* The pitting step of generate_concrete_texture (line 512) on a buffer large
\* enough for pinholes, for several values of pitting and pitting_size.
DirectPitting ==
    /\ \A t \in Calls : pc[t] = "idle"
    /\ \E base \in {40, 200}, density \in {0, 100, 200}, size \in {50, 100, 200} :
          LET im == TestImage(30, 20, base)
              a == [LayerArgs(30, 20) EXCEPT !.pitting = density, !.pitting_size = size]
          IN  /\ Returned("pitting", a, im, CallPitting(a, im, pyRandom, npRandom))
              /\ UNCHANGED stain

DirectAggregate ==
    /\ \A t \in Calls : pc[t] = "idle"
    /\ \E base \in {40, 200}, density \in {0, 100, 200} :
          LET im == TestImage(40, 20, base)
              a == [LayerArgs(40, 20) EXCEPT !.aggregate_density = density]
          IN  /\ Returned("aggregate", a, im, CallAggregate(a, im, pyRandom, npRandom))
              /\ UNCHANGED stain

DirectStaining ==
    /\ \A t \in Calls : pc[t] = "idle"
    /\ \E base \in {0, 100}, intensity \in {0, 15, 30}, patch_count \in {0, 1, StainPatches} :
          LET im == TestImage(StripW, 1, base)
              r == apply_color_variation(im, StripW, 1, patch_count, StainNoiseScale,
                                         intensity, pyRandom, npRandom)
          IN  /\ Returned("staining", LayerArgs(StripW, 1), im, r)
              /\ stain' = [stain EXCEPT ![1] = [mask |-> r.mask, intensity |-> intensity,
                                                width |-> StripW, height |-> 1,
                                                seed |-> r.seed, circles |-> r.circles]]

\* A direct call of apply_dust_haze on a one-row strip, with no patch, a few
\* patches, or the patches of the generator.
DirectHaze ==
    /\ \A t \in Calls : pc[t] = "idle"
    /\ \E base \in {40, 200}, patch_count \in {0, 1, 2, 3, HazePatches} :
          LET im == TestImage(StripW, 1, base)
          IN  /\ Returned("haze", LayerArgs(StripW, 1), im,
                          apply_dust_haze(im, StripW, 1, patch_count, pyRandom, npRandom))
              /\ UNCHANGED stain

Next ==
    \/ Call
    \/ CallAgain
    \/ Disturb
    \/ \E t \in Calls : Pipeline(t)
    \/ DirectPitting
    \/ DirectAggregate
    \/ DirectStaining
    \/ DirectHaze

Spec == Init /\ [][Next]_vars

----------------------------------------------------------------------------
(* Two threads call generate_concrete_texture concurrently, as the GUI's    *)
(* preview threads do (concrete_texture_app.py lines 443-464); the steps of *)
(* the two calls interleave in any order.                                   *)

ConcArgs == {MkArgs("direct", DefaultColour, MaxDim, MaxDim, sd, Style0) : sd \in Seeds}

ThreadCall(t) == \E a \in ConcArgs : Begin(t, a)

NextConc == \E t \in Calls : ThreadCall(t) \/ Pipeline(t)

InitConc ==
    /\ pyRandom \in InitPy
    /\ npRandom \in InitNp
    /\ InitCalls
    /\ unit = NoUnit
    /\ IdleGui

SpecConc == InitConc /\ [][NextConc]_vars

----------------------------------------------------------------------------
(* Direct evaluation of the pinhole count of apply_pitting_pinholes for a   *)
(* buffer and for the buffer of twice the width and height.                 *)

InitCount ==
    /\ pyRandom = 0
    /\ npRandom = 0
    /\ InitCalls
    /\ unit \in [pc : {"start"}, width : MinDimension .. MaxCountDim,
                 height : MinDimension .. MaxCountDim, density : {50, 100, 200},
                 count : {0}, count4 : {0}]
    /\ IdleGui

CountPinholes ==
    /\ unit.pc = "start"
    /\ unit' = [unit EXCEPT !.pc = "counted",
                            !.count = PinholeCount(unit.width, unit.height, unit.density)]
    /\ UNCHANGED <<pyRandom, npRandom, pc, args, img, log, writes, entry, firstDraw,
                   stain, feats, overlay, disturbed, turn, preempts>>
    /\ UNCHANGED guiVars

CountPinholesDoubled ==
    /\ unit.pc = "counted"
    /\ unit' = [unit EXCEPT !.pc = "done",
                            !.count4 = PinholeCount(2 * unit.width, 2 * unit.height,
                                                    unit.density)]
    /\ UNCHANGED <<pyRandom, npRandom, pc, args, img, log, writes, entry, firstDraw,
                   stain, feats, overlay, disturbed, turn, preempts>>
    /\ UNCHANGED guiVars

NextCount == CountPinholes \/ CountPinholesDoubled

SpecCount == InitCount /\ [][NextCount]_vars

----------------------------------------------------------------------------
(* The handlers of the preview window run on Tk's main thread, one at a     *)
(* time, except where a handler enters the event loop itself (root.update() *)
(* of line 440, the modal dialog of messagebox.showerror); the generation   *)
(* threads run beside them.  The delay of a callback (100 or 300 ms, lines  *)
(* 424-429) decides only when it runs: the callbacks are all alike, and any *)
(* order of the events is followed.                                         *)

genVars == <<pyRandom, npRandom, pc, args, img, log, writes, entry, firstDraw,
             stain, feats, overlay, disturbed, unit, turn, preempts>>

\* The main window takes input: the user has changes left to make and no
\* modal dialog is open.
UserCan == hist.changes < MaxChanges /\ app.dialog = ""

\* schedule_generation (lines 419-429) called n times in a handler that left
\* params as p: generation_pending is set and either branch posts one callback.
ScheduleGeneration(a, p, n) ==
    /\ app' = [a EXCEPT !.params = p, !.generation_pending = TRUE]
    /\ tk' = [tk EXCEPT !.timers = @ + n]
    /\ hist' = [hist EXCEPT !.changes = @ + 1, !.seen = @ \cup {p},
                            !.started = 0, !.idle = 0]

\* on_slider_change (lines 351-356) for the roughness slider.
OnSliderChange ==
    /\ UserCan
    /\ \E v \in SliderValues :
          ScheduleGeneration(app, [app.params EXCEPT !.roughness = v], 1)
    /\ UNCHANGED <<workers, genVars>>

\* reset_parameters (lines 389-417).  slider.set may run the slider's
\* command, on_slider_change, which schedules once more.
ResetParameters ==
    /\ UserCan
    /\ \E n \in {1, 2} :
          ScheduleGeneration([app EXCEPT !.swatch = AppDefaultColour],
                             DefaultParams, n)
    /\ UNCHANGED <<workers, genVars>>

\* set_preset_color (lines 336-343).
SetPresetColor ==
    /\ UserCan
    /\ ScheduleGeneration([app EXCEPT !.swatch = PresetColour, !.status = "Color"],
                          [app.params EXCEPT !.color = PresetColour], 1)
    /\ UNCHANGED <<workers, genVars>>

\* randomize_parameters (lines 369-387): a palette colour through
\* set_preset_color, which schedules, a value for each slider, and a second
\* schedule_generation; random.choice and random.uniform draw from `random`.
RandomizeParameters ==
    /\ UserCan
    /\ \E v \in SliderValues :
          ScheduleGeneration([app EXCEPT !.swatch = PresetColour, !.status = "Color"],
                             [color |-> PresetColour, roughness |-> v], 2)
    /\ pyRandom' = PyNext(PyNext(pyRandom))
    /\ UNCHANGED <<npRandom, pc, args, img, log, writes, entry, firstDraw, stain,
                   feats, overlay, disturbed, unit, turn, preempts, workers>>

\* The text of the entry as lines 313-316 leave it.
EntryColour(text) ==
    LET s == Strip(text)
    IN  IF Len(s) > 0 /\ Head(s) = "#" THEN s ELSE <<"#">> \o s

\* update_color_from_entry (lines 311-324).  The try block validates with
\* hex_to_rgb, assigns params['color'], redraws the swatch (lines 345-349,
\* where Tk rejects a colour it does not know) and schedules; any exception
\* ends in the 'Invalid Color' dialog.
UpdateColorFromEntry ==
    /\ UserCan
    /\ \E text \in EntryTexts :
          LET hex_color == EntryColour(text)
              p == [app.params EXCEPT !.color = hex_color]
          IN  IF ~hex_to_rgb(hex_color).ok
              THEN /\ app' = [app EXCEPT !.dialog = "Invalid Color"]
                   /\ hist' = [hist EXCEPT !.changes = @ + 1,
                                           !.before = app.params.color,
                                           !.scheduled = FALSE]
                   /\ tk' = tk
              ELSE IF ~TkColourOk(hex_color)
              THEN /\ app' = [app EXCEPT !.params = p, !.swatch = << >>,
                                         !.dialog = "Invalid Color"]
                   /\ hist' = [hist EXCEPT !.changes = @ + 1, !.seen = @ \cup {p},
                                           !.before = app.params.color,
                                           !.scheduled = FALSE,
                                           !.entrySet = hex_color]
                   /\ tk' = tk
              ELSE /\ app' = [app EXCEPT !.params = p, !.swatch = hex_color,
                                         !.generation_pending = TRUE]
                   /\ tk' = [tk EXCEPT !.timers = @ + 1]
                   /\ hist' = [hist EXCEPT !.changes = @ + 1, !.seen = @ \cup {p},
                                           !.started = 0, !.idle = 0,
                                           !.before = app.params.color,
                                           !.scheduled = TRUE,
                                           !.entrySet = hex_color]
    /\ UNCHANGED <<workers, genVars>>

\* The user closes the dialog.
DismissDialog ==
    /\ app.dialog # ""
    /\ app' = [app EXCEPT !.dialog = ""]
    /\ UNCHANGED <<tk, workers, hist, genVars>>

\* generate_preview up to root.update() (lines 437-440), as the callback of
\* line 52.
InitialPreview ==
    /\ tk.initial
    /\ tk' = [tk EXCEPT !.initial = FALSE, !.frames = @ + 1]
    /\ app' = [app EXCEPT !.status = "Generating..."]
    /\ UNCHANGED <<workers, hist, genVars>>

\* A callback that generates whatever generation_pending is.
MustGenerateAlways(a) == TRUE

\* The test of line 433.
MustGenerate(a) == a.generation_pending

\* check_and_generate (lines 431-435), with generate_preview up to
\* root.update().
CheckAndGenerate ==
    /\ tk.timers > 0
    /\ IF MustGenerate(app)
       THEN /\ app' = [app EXCEPT !.generation_pending = FALSE,
                                  !.status = "Generating..."]
            /\ tk' = [tk EXCEPT !.timers = @ - 1, !.frames = @ + 1]
            /\ hist' = [hist EXCEPT !.started = @ + 1,
                                    !.badStart = @ \/ ~app.generation_pending]
       ELSE /\ tk' = [tk EXCEPT !.timers = @ - 1]
            /\ hist' = [hist EXCEPT !.idle = @ + 1]
            /\ app' = app
    /\ UNCHANGED <<workers, genVars>>

\* generate_preview after root.update() (lines 442-444): the thread starts,
\* whatever the earlier threads are doing.
StartThread ==
    /\ tk.frames > 0
    /\ tk.spawned < MaxChanges + 1
    /\ tk' = [tk EXCEPT !.frames = @ - 1, !.spawned = @ + 1]
    /\ workers' = [workers EXCEPT ![tk.spawned + 1].pc = "read_color"]
    /\ UNCHANGED <<app, hist, genVars>>

\* _generate_preview_thread, line 451: self.params['color'] is read.
ReadColor(i) ==
    /\ workers[i].pc = "read_color"
    /\ workers' = [workers EXCEPT ![i].pc = "read_sliders",
                                  ![i].color = app.params.color]
    /\ UNCHANGED <<app, tk, hist, genVars>>

\* Lines 450-464: the slider values are read and the image is generated.
\* generate_concrete_texture accepts every colour params can hold (hex_to_rgb
\* accepted it), so the except branch of lines 473-474 is not entered.
Generate(i) ==
    /\ workers[i].pc = "read_sliders"
    /\ workers' = [workers EXCEPT ![i].pc = "store",
                                  ![i].roughness = app.params.roughness]
    /\ UNCHANGED <<app, tk, hist, genVars>>

\* The image of a thread.
ImageOf(w) == [color |-> w.color, roughness |-> w.roughness]

\* Line 467: self.current_preview = img.
Store(i) ==
    /\ workers[i].pc = "store"
    /\ app' = [app EXCEPT !.current_preview = ImageOf(workers[i])]
    /\ workers' = [workers EXCEPT ![i].pc = "post"]
    /\ UNCHANGED <<tk, hist, genVars>>

\* Lines 470-471: the display callback is posted and the thread ends.
Post(i) ==
    /\ workers[i].pc = "post"
    /\ tk' = [tk EXCEPT !.displays = Append(@, ImageOf(workers[i]))]
    /\ workers' = [workers EXCEPT ![i].pc = "done"]
    /\ UNCHANGED <<app, hist, genVars>>

\* _update_preview_display (lines 476-486), in the order posted.
UpdatePreviewDisplay ==
    /\ tk.displays # << >>
    /\ app' = [app EXCEPT !.canvas = Head(tk.displays), !.status = "Ready"]
    /\ tk' = [tk EXCEPT !.displays = Tail(@)]
    /\ UNCHANGED <<workers, hist, genVars>>

NextGui ==
    \/ OnSliderChange
    \/ ResetParameters
    \/ SetPresetColor
    \/ RandomizeParameters
    \/ UpdateColorFromEntry
    \/ DismissDialog
    \/ InitialPreview
    \/ CheckAndGenerate
    \/ StartThread
    \/ \E i \in Workers : ReadColor(i)
    \/ \E i \in Workers : Generate(i)
    \/ \E i \in Workers : Store(i)
    \/ \E i \in Workers : Post(i)
    \/ UpdatePreviewDisplay

\* __init__ (lines 22-52): the defaults, and the first preview posted.
InitGui ==
    /\ pyRandom = 0
    /\ npRandom = 0
    /\ InitCalls
    /\ unit = NoUnit
    /\ app = NoApp
    /\ tk = [NoTk EXCEPT !.initial = TRUE]
    /\ workers = [i \in Workers |-> NoWorker]
    /\ hist = NoHist

SpecGui == InitGui /\ [][NextGui]_vars

----------------------------------------------------------------------------
(* Properties *)

\* A call of generate_concrete_texture (not a direct call of one layer).
IsRun(t) == args[t].via \in {"direct", "cli"}

\* C1 - Determinism: two sequential calls with the same arguments and the same
\* non-None seed end the same way and return identical pixel buffers, whatever
\* the state of the two global generators was before each call.
SeededRepeatIdentical ==
    (Finished(1) /\ Finished(2) /\ args[1].seeded)
        => (args[2] = args[1] /\ pc[2] = pc[1] /\ img[2] = img[1])

\* Both calls returned a buffer that the random layers changed, and the
\* generators stood differently when the second call began.
SeededRepeatWitness ==
    /\ pc[1] = "done" /\ pc[2] = "done"
    /\ args[1].seeded
    /\ entry[1][1] # entry[2][1]
    /\ entry[1][2] # entry[2][2]
    /\ img[2] # log[2][1].output

\* C2 - Channel bounds: after every layer every channel of every pixel is an
\* integer in [0, 255]; a raw value outside that range is stored as the
\* nearest bound (not modulo 256), and with a valid colour and style
\* arguments in their ranges no layer raises.
ChannelsClamped ==
    \A t \in Calls :
        /\ \A p \in DOMAIN img[t] : \A c \in 1 .. 3 : img[t][p][c] \in 0 .. 255
        /\ \A wr \in writes[t] :
              wr[2] = (IF wr[1] < 0 THEN 0 ELSE IF wr[1] > 255 THEN 255 ELSE wr[1])
        /\ (IsRun(t) /\ hex_to_rgb(args[t].base_color).ok /\ InRange(args[t]))
              => pc[t] # "error"

\* A layer computed a raw value above 255 and one below 0, and stored both.
ChannelsClampedWitness ==
    \E t \in Calls :
        /\ \E wr \in writes[t] : wr[1] > 255 /\ wr[2] = 255
        /\ \E wr \in writes[t] : wr[1] < 0 /\ wr[2] = 0
        /\ img[t] # NoImg

\* The order of the layers.
LayerOrder == <<"base", "noise", "knockdown", "stipple", "grain", "pitting",
                "aggregate", "staining", "cracks", "pores", "haze">>

\* C3 - Fixed layer order: the layers a run has applied are the first layers
\* of the fixed order, each once, each on the buffer the previous one
\* returned; a run that returned applied all eleven; the buffer of the run is
\* the output of the last layer applied.
LayersInFixedOrder ==
    \A t \in Calls :
        IsRun(t) =>
            /\ Len(log[t]) <= Len(LayerOrder)
            /\ \A i \in 1 .. Len(log[t]) : log[t][i].layer = LayerOrder[i]
            /\ \A i \in 2 .. Len(log[t]) : log[t][i].input = log[t][i - 1].output
            /\ Len(log[t]) > 0 => img[t] = log[t][Len(log[t])].output
            /\ pc[t] = "done" => Len(log[t]) = Len(LayerOrder)
            /\ pc[t] \in {"idle", "enter"} => Len(log[t]) = 0

\* A run returned after all layers, with a buffer that knockdown changed and
\* that the grain layers read.
LayersInFixedOrderWitness ==
    \E t \in Calls :
        /\ IsRun(t) /\ pc[t] = "done"
        /\ log[t][3].layer = "knockdown"
        /\ log[t][3].output # log[t][3].input
        /\ log[t][4].input = log[t][3].output
        /\ log[t][11].layer = "haze"

\* Six hexadecimal digits after one optional leading '#'.
WellFormedColour(s) ==
    LET body == IF Len(s) > 0 /\ Head(s) = "#" THEN Tail(s) ELSE s
    IN  Len(body) = 6 /\ \A i \in 1 .. 6 : IsHexDigit(body[i])

\* C4 - Invalid base colour is a hard error: a run whose colour string is not
\* well formed ends in an error before any layer runs and before the
\* generators are seeded.
InvalidColourRejected ==
    \A t \in Calls :
        (IsRun(t) /\ ~WellFormedColour(args[t].base_color))
            => /\ pc[t] \in {"enter", "error"}
               /\ log[t] = << >>
               /\ img[t] = NoImg

\* C5 - Out-of-range dimensions are rejected: a run whose width or height is
\* outside [64, 8192] creates no buffer and runs no layer.
BadDimensionsRejected ==
    \A t \in Calls :
        (IsRun(t) /\ ~(/\ args[t].width \in MinDimension .. MaxDimension
                       /\ args[t].height \in MinDimension .. MaxDimension))
            => /\ img[t] = NoImg
               /\ log[t] = << >>

\* C6 - Out-of-range style parameters are clamped, never rejected: a run with
\* a convertible colour never ends in an error, whatever its style arguments.
StyleNeverRejected ==
    \A t \in Calls :
        (IsRun(t) /\ hex_to_rgb(args[t].base_color).ok) => pc[t] # "error"

\* C7 - Concurrent runs do not interfere: when both calls were given a seed,
\* a call that returned holds the buffer it returns when run alone.
ConcurrentRunsIndependent ==
    \A t \in Calls :
        (pc[t] = "done" /\ \A u \in Calls : IsRun(u) /\ args[u].seeded)
            => img[t] = Alone(args[t], entry[t][1], entry[t][2])

\* C8 - Absent seed: a call without a seed derives all its randomness from
\* one value drawn at its start, so two calls with the same arguments whose
\* first drawn value is the same return the same buffer.
UnseededFromOneDraw ==
    (/\ pc[1] = "done" /\ pc[2] = "done"
     /\ ~args[1].seeded /\ args[2] = args[1]
     /\ firstDraw[1] = firstDraw[2])
        => img[1] = img[2]

\* C9 - Density scales with area: the pinhole count is
\* floor(W * H / 600 * pitting), and with pitting = 1.0 the count for 2W x 2H
\* differs from four times the count for W x H by less than 4.
PinholesScaleWithArea ==
    unit.pc = "done" =>
        /\ unit.count = (unit.width * unit.height * unit.density) \div 60000
        /\ unit.density = 100 => Abs(unit.count4 - 4 * unit.count) < 4

\* Both counts are computed, pinholes are drawn, and rounding shows.
PinholesScaleWitness ==
    /\ unit.pc = "done"
    /\ unit.density = 100
    /\ unit.count > 0
    /\ unit.count4 # 4 * unit.count

\* The log entry of the staining layer of call t.
StainEntry(t) == log[t][CHOOSE i \in 1 .. Len(log[t]) : log[t][i].layer = "staining"]

\* The amount the staining layer subtracts at pixel p of call t.
Subtracted(t, p) == (stain[t].mask[p] * stain[t].intensity) \div 1000

Adjacent(p, q) == Abs(p[1] - q[1]) + Abs(p[2] - q[2]) = 1

\* C10 - Hard-edged staining: the stain mask is 0 or 1 at every pixel, each
\* channel is the clip of the input minus 0 or minus the full intensity, and
\* across a patch boundary the subtracted amount changes by the full
\* intensity between adjacent pixels.
StainMaskHardEdged ==
    \A t \in Calls :
        stain[t] # NoStain =>
            LET e == StainEntry(t)
                px == Pix(stain[t].width, stain[t].height)
            IN  /\ \A p \in px : stain[t].mask[p] \in {0, 1000}
                /\ \A p \in px : \A c \in 1 .. 3 :
                      \E sub \in {0, stain[t].intensity} :
                         /\ sub = Subtracted(t, p)
                         /\ e.output[p][c] = Max(0, Min(255, e.input[p][c] - sub))
                /\ \A p \in px : \A q \in px :
                      (Adjacent(p, q) /\ stain[t].mask[p] # stain[t].mask[q])
                         => Abs(Subtracted(t, p) - Subtracted(t, q)) = stain[t].intensity

\* A patch boundary between two adjacent pixels: the stained one lost the
\* full intensity, its neighbour nothing.
StainMaskWitness ==
    \E t \in Calls :
        /\ stain[t] # NoStain
        /\ stain[t].intensity > 0
        /\ \E p \in Pix(stain[t].width, stain[t].height) :
           \E q \in Pix(stain[t].width, stain[t].height) :
              /\ Adjacent(p, q)
              /\ stain[t].mask[p] = 1000 /\ stain[t].mask[q] = 0
              /\ StainEntry(t).input[p][1] - StainEntry(t).output[p][1]
                    = stain[t].intensity
              /\ StainEntry(t).input[q][1] = StainEntry(t).output[q][1]

\* The style arguments of call t, as a record over StyleNames.
StyleOf(t) == [n \in StyleNames |-> args[t][n]]

\* The base colour of call t as the three channel values.
BaseOf(t) == hex_to_rgb(args[t].base_color).rgb

\* C11 - Base-colour dominance: a call with roughness, knockdown_intensity,
\* pitting, aggregate_density, cracks and staining_intensity all 0 and the
\* other style arguments at their minimum returns a buffer in which every
\* channel of every pixel is no lower than the base colour less the amplitude
\* of the tonal noise (12 + 6), and no higher than the base colour plus that
\* amplitude plus the lift of the dust haze (which is at most its largest
\* alpha, 30).
BaseColourDominates ==
    \A t \in Calls :
        (IsRun(t) /\ pc[t] = "done" /\ StyleOf(t) = StyleMin)
            => \A p \in Pix(args[t].width, args[t].height) : \A c \in Channels :
                  /\ img[t][p][c] >= BaseOf(t)[c] - (TonalIntensity + TonalIntensity \div 2)
                  /\ img[t][p][c] <= BaseOf(t)[c] + (TonalIntensity + TonalIntensity \div 2)
                                      + HazeAlphaMax

\* Such a call returned a buffer that the tonal noise moved both ways and
\* that the haze lifted.
BaseColourDominatesWitness ==
    \E t \in Calls :
        /\ IsRun(t) /\ pc[t] = "done" /\ StyleOf(t) = StyleMin
        /\ \E p, q \in Pix(args[t].width, args[t].height) :
              /\ log[t][2].output[p][1] > BaseOf(t)[1]
              /\ log[t][2].output[q][1] < BaseOf(t)[1]
        /\ log[t][11].output # log[t][11].input
        /\ \A k \in 3 .. 10 : log[t][k].output = log[t][k].input

\* The two octave values of the tonal noise at pixel p for call t, thousandths.
Octave1(t, p) == noise2(firstDraw[t], p[1] * args[t].noise_scale, p[2] * args[t].noise_scale)
Octave2(t, p) ==
    noise2(firstDraw[t] + 1, p[1] * args[t].noise_scale * 3, p[2] * args[t].noise_scale * 3)

\* clamp(v + n1 * intensity + n2 * (intensity / 2)), clamped once after the sum.
SumThenClamp(v, n1, n2) ==
    clamp((v * 2000 + 2 * n1 * TonalIntensity + n2 * TonalIntensity) \div 2000)

\* C12 - Tonal noise sums then clamps: every channel that the noise layer of a
\* call returns equals clamp(v + a1 + a2), the starting value plus both octave
\* adjustments clamped once after the sum (allowing one unit for the
\* truncation of the stored value).
TonalNoiseClampsOnce ==
    \A t \in Calls :
        (IsRun(t) /\ Len(log[t]) >= 2)
            => \A p \in Pix(args[t].width, args[t].height) : \A c \in Channels :
                  Abs(log[t][2].output[p][c]
                        - SumThenClamp(log[t][2].input[p][c], Octave1(t, p), Octave2(t, p)))
                    <= 1

\* Call t is a direct call of the layer function `name` that has returned.
LayerReturned(t, name) ==
    /\ args[t].via = "layer" /\ pc[t] = "returned" /\ log[t][1].layer = name

\* C13 - Pitting darkens each pixel relative to itself: no pixel leaves the
\* pitting layer with a channel higher than it entered with, and when one
\* pinhole was drawn every pixel of its disk ends at floor(0.4 x its own
\* value before).
PinholeDarkensOwnPixel ==
    \A t \in Calls :
        LayerReturned(t, "pitting")
            => /\ \A p \in Pix(args[t].width, args[t].height) : \A c \in Channels :
                     log[t][1].output[p][c] <= log[t][1].input[p][c]
               /\ Len(feats[t]) = 1
                     => \A p \in Pix(args[t].width, args[t].height) :
                           InDisk(p, feats[t][1].x, feats[t][1].y, feats[t][1].radius)
                              => log[t][1].output[p] = Darken(log[t][1].input[p], 400)

\* C14 - Features sample the colour at draw time: every pore and every pinhole
\* is filled with 0.4 x the colour that its centre pixel holds at the moment
\* it is drawn, earlier features of the same layer included (so a pore on a
\* pore is filled with 0.4 x 0.4 of the layer-entry value).
FeaturesSampleAtDrawTime ==
    \A t \in Calls : \A i \in 1 .. Len(feats[t]) :
        feats[t][i].kind \in {"pore", "pinhole"}
            => feats[t][i].colour = Darken(feats[t][i].current, 400)

\* The pore layer of call t has just returned.
PoresReturned(t) ==
    /\ IsRun(t) /\ pc[t] = NextStep("pores") /\ args[t].pitting >= 0

\* C15 - Legacy pores: the pore layer of a call draws exactly
\* floor(600 x pitting) pores whatever the width and height, and fills each
\* with 0.5 x the colour of the sampled pixel (as the layer received it, or as
\* it stood when the pore was drawn).
LegacyPoresHalve ==
    \A t \in Calls :
        PoresReturned(t)
            => /\ Len(feats[t]) = (PoreBase * args[t].pitting) \div 100
               /\ \A i \in 1 .. Len(feats[t]) :
                     \/ feats[t][i].colour = Darken(feats[t][i].current, 500)
                     \/ feats[t][i].colour
                          = Darken(log[t][10].input[<<feats[t][i].x, feats[t][i].y>>], 500)

\* C16 - Pinhole radius follows pitting_size: every pinhole the pitting step
\* draws has a radius of k x pitting_size for an integer k in [1, 4].
PinholeRadiusFollowsSize ==
    \A t \in Calls :
        LayerReturned(t, "pitting")
            => \A i \in 1 .. Len(feats[t]) :
                  \E k \in 1 .. 4 : feats[t][i].radius * 100 = k * args[t].pitting_size

\* Pixel p of the staining layer of call t is stained: the coherent noise is
\* above 0.2 there, or p lies within the radius of one of the circles.
Stained(t, p) ==
    \/ noise2(stain[t].seed, p[1] * StainNoiseScale, p[2] * StainNoiseScale) * 10 > 2 * 1000
    \/ \E ci \in stain[t].circles :
          (p[1] - ci[1]) * (p[1] - ci[1]) + (p[2] - ci[2]) * (p[2] - ci[2])
             <= ci[3] * ci[3]

\* C17 - Staining effect and frame: the staining layer lowers all three
\* channels by the intensity (floor(15 x staining_intensity) in a call of the
\* generator), clamped at 0, at exactly the pixels that are stained, that is
\* where the noise is above 0.2 or inside one of the at most 8 circles of
\* radius 20 to 80 placed in the buffer, and leaves every other pixel as it
\* was.
StainingFrame ==
    \A t \in Calls :
        (stain[t] # NoStain /\ stain[t].intensity >= 0)
            => /\ IsRun(t) => stain[t].intensity = (15 * args[t].staining_intensity) \div 100
               /\ Cardinality(stain[t].circles) <= 8
               /\ \A ci \in stain[t].circles :
                     /\ ci[1] \in 0 .. stain[t].width - 1
                     /\ ci[2] \in 0 .. stain[t].height - 1
                     /\ ci[3] \in 20 .. 80
               /\ \A p \in Pix(stain[t].width, stain[t].height) :
                     IF Stained(t, p)
                     THEN \A c \in Channels :
                             StainEntry(t).output[p][c]
                               = Max(0, StainEntry(t).input[p][c] - stain[t].intensity)
                     ELSE StainEntry(t).output[p] = StainEntry(t).input[p]

\* A staining layer that lowered a pixel inside a circle where the noise is
\* low, lowered a pixel outside every circle where the noise is high, clamped
\* a channel at 0 and left a third pixel as it was.
StainingFrameWitness ==
    \E t \in Calls :
        /\ stain[t] # NoStain /\ stain[t].intensity > 0
        /\ \E p, q, u \in Pix(stain[t].width, stain[t].height) :
              /\ Stained(t, p) /\ Stained(t, q) /\ ~Stained(t, u)
              /\ noise2(stain[t].seed, p[1] * StainNoiseScale, p[2] * StainNoiseScale) <= 200
              /\ \A ci \in stain[t].circles : ~InDisk(q, ci[1], ci[2], ci[3])
              /\ StainEntry(t).output[p][1] < StainEntry(t).input[p][1]
              /\ StainEntry(t).output[q][1] < StainEntry(t).input[q][1]
              /\ StainEntry(t).output[u] = StainEntry(t).input[u]
        /\ \E p \in Pix(stain[t].width, stain[t].height) : \E c \in Channels :
              /\ StainEntry(t).output[p][c] = 0
              /\ StainEntry(t).input[p][c] \in 1 .. stain[t].intensity - 1

\* Every channel of log entry e is the clip of its input plus an integer in
\* [-amp, amp].
NoiseWithin(e, w, h, amp) ==
    \A p \in Pix(w, h) : \A c \in Channels :
        \E d \in -amp .. amp :
            e.output[p][c] = Max(0, Min(ChannelMax, e.input[p][c] + d))

\* C18 - Stipple and grain noise range: the heavy-stipple layer of a call adds
\* to every channel of every pixel an integer in [-I, I], I = floor(35 x
\* roughness), and the fine-grain layer an integer in [-J, J], J = floor(25 x
\* roughness); each result is clamped to [0, 255], so a layer changes a
\* channel by at most I (respectively J).
StippleGrainRange ==
    \A t \in Calls :
        IsRun(t) =>
            /\ Len(log[t]) >= 4
                  => /\ log[t][4].layer = "stipple"
                     /\ NoiseWithin(log[t][4], args[t].width, args[t].height,
                                    (StippleScale * args[t].roughness) \div 100)
            /\ Len(log[t]) >= 5
                  => /\ log[t][5].layer = "grain"
                     /\ NoiseWithin(log[t][5], args[t].width, args[t].height,
                                    (FineGrainScale * args[t].roughness) \div 100)

\* Both layers ran with a positive amplitude; the stipple layer lowered one
\* channel by exactly I and raised another, and the grain layer lowered one
\* channel by exactly J and raised another.
StippleGrainWitness ==
    \E t \in Calls :
        /\ IsRun(t) /\ Len(log[t]) >= 5 /\ args[t].roughness > 0
        /\ \E p, q \in Pix(args[t].width, args[t].height) : \E c, d \in Channels :
              /\ log[t][4].output[p][c]
                    = log[t][4].input[p][c] - (StippleScale * args[t].roughness) \div 100
              /\ log[t][4].output[q][d] > log[t][4].input[q][d]
        /\ \E p, q \in Pix(args[t].width, args[t].height) : \E c, d \in Channels :
              /\ log[t][5].output[p][c]
                    = log[t][5].input[p][c] - (FineGrainScale * args[t].roughness) \div 100
              /\ log[t][5].output[q][d] > log[t][5].input[q][d]

\* The crack layer of call t has just returned.
CracksReturned(t) == IsRun(t) /\ pc[t] = NextStep("cracks")

\* C19 - Crack vertices stay in bounds: every point of every polyline that
\* apply_cracks draws, crack or branch, is a pixel of the buffer; a branch
\* starts at the position of the walk clamped into the buffer, also when the
\* walk was outside the buffer when the branch was spawned.
CrackVerticesInBounds ==
    \A t \in Calls :
        CracksReturned(t) =>
            \A i \in 1 .. Len(feats[t]) :
               /\ \A j \in 1 .. Len(feats[t][i].points) :
                     feats[t][i].points[j] \in Pix(args[t].width, args[t].height)
               /\ feats[t][i].kind = "branch"
                     => feats[t][i].points[1]
                          = <<Max(0, Min(args[t].width - 1, feats[t][i].spawn[1] \div 1000)),
                              Max(0, Min(args[t].height - 1, feats[t][i].spawn[2] \div 1000))>>

\* A crack was drawn, and so was a branch that was spawned while the walk
\* was outside the buffer.
CrackVerticesWitness ==
    \E t \in Calls :
        /\ CracksReturned(t)
        /\ \E i \in 1 .. Len(feats[t]) :
              feats[t][i].kind = "crack" /\ Len(feats[t][i].points) > 2
        /\ \E i \in 1 .. Len(feats[t]) :
              /\ feats[t][i].kind = "branch"
              /\ ~InBounds(feats[t][i].spawn[1], feats[t][i].spawn[2],
                           args[t].width, args[t].height)

\* C20 - Crack colour is local and relative: every crack polyline and every
\* branch polyline is drawn in floor(0.6 x c) per channel, where c is the
\* colour that the polyline's own first point holds in the image when the
\* polyline is drawn.
CrackColourLocal ==
    \A t \in Calls :
        CracksReturned(t) =>
            \A i \in 1 .. Len(feats[t]) :
                feats[t][i].colour = Darken(feats[t][i].current, 600)

\* The dust-haze layer of call t has just returned.
HazeReturned(t) == IsRun(t) /\ pc[t] = NextStep("haze")

\* C21 - Dust haze placement: the dust-haze layer of a call draws between 12
\* and 15 ellipses, each with a radius r in [50, 150] and an alpha in
\* [10, 30], and the centre of each is drawn from the integers that lie
\* outside the buffer by up to r on every side: x from [-r, width + r] and y
\* from [-r, height + r].
HazeCentreWithinRadius ==
    \A t \in Calls :
        HazeReturned(t) =>
            /\ Len(feats[t]) \in 12 .. 15
            /\ \A i \in 1 .. Len(feats[t]) :
                  /\ feats[t][i].radius \in 50 .. 150
                  /\ feats[t][i].alpha \in 10 .. 30
                  /\ feats[t][i].x = RandInt(feats[t][i].py, -feats[t][i].radius,
                                             args[t].width + feats[t][i].radius)
                  /\ feats[t][i].y = RandInt(PyNext(feats[t][i].py), -feats[t][i].radius,
                                             args[t].height + feats[t][i].radius)

\* The style argument that scales the layer called `layer` in call t (the
\* intensity itself for a direct call of the staining layer); 1 for a layer
\* that no argument switches off.
KnobOf(t, layer) ==
    CASE layer \in {"stipple", "grain"} -> args[t].roughness
      [] layer = "knockdown" -> args[t].knockdown_intensity
      [] layer \in {"pitting", "pores"} -> args[t].pitting
      [] layer = "aggregate" -> args[t].aggregate_density
      [] layer = "cracks" -> args[t].cracks
      [] layer = "staining" -> IF IsRun(t) THEN args[t].staining_intensity
                               ELSE stain[t].intensity
      [] OTHER -> 1

\* C26 - A layer whose knob is 0 is the identity on the buffer: the stipple
\* and fine-grain layers with roughness 0, the knockdown layer with
\* knockdown_intensity 0, the pitting and pore layers with pitting 0, the
\* aggregate layer with aggregate_density 0, the crack layer with
\* crack_density 0 and the staining layer with staining_intensity 0 each
\* return a buffer equal to their input, pixel for pixel.
ZeroKnobIsIdentity ==
    \A t \in Calls : \A k \in 1 .. Len(log[t]) :
        KnobOf(t, log[t][k].layer) = 0 => log[t][k].output = log[t][k].input

\* A call with every knob at 0 ended: the eight layers from knockdown to
\* pores each returned their input, which the tonal noise had made uneven.
ZeroKnobWitness ==
    \E t \in Calls :
        /\ IsRun(t) /\ pc[t] = "done"
        /\ \A k \in 3 .. 10 :
              /\ KnobOf(t, log[t][k].layer) = 0
              /\ log[t][k].output = log[t][k].input
        /\ \E p, q \in Pix(args[t].width, args[t].height) :
              log[t][3].input[p] # log[t][3].input[q]
        /\ log[t][2].output # log[t][2].input

\* Call t applied the dust-haze layer last: as the final step of a call of
\* the generator, or as a direct call of the layer.
HazeLast(t) == HazeReturned(t) \/ LayerReturned(t, "haze")

\* The log entry of that layer.
HazeEntry(t) == log[t][Len(log[t])]

\* C27 - Dust haze only lightens: every channel of every pixel that the
\* dust-haze layer returns is at least its input value and at most 255, and
\* a pixel where the alpha of the blurred overlay is 0 is unchanged.
HazeOnlyLightens ==
    \A t \in Calls :
        HazeLast(t) =>
            \A p \in Pix(args[t].width, args[t].height) :
               /\ \A c \in Channels :
                     /\ HazeEntry(t).output[p][c] >= HazeEntry(t).input[p][c]
                     /\ HazeEntry(t).output[p][c] <= ChannelMax
               /\ overlay[t][p] = 0 => HazeEntry(t).output[p] = HazeEntry(t).input[p]

\* A haze layer whose overlay covers one pixel, which it lightened, and has
\* alpha 0 at another, which it left unchanged.
HazeOnlyLightensWitness ==
    \E t \in Calls :
        /\ HazeLast(t)
        /\ \E p, q \in Pix(args[t].width, args[t].height) : \E c \in Channels :
              /\ overlay[t][p] > 0
              /\ HazeEntry(t).output[p][c] > HazeEntry(t).input[p][c]
              /\ overlay[t][q] = 0
              /\ HazeEntry(t).output[q] = HazeEntry(t).input[q]

\* C25 - Rejected colour entry changes nothing: while the 'Invalid Color'
\* dialog of update_color_from_entry is shown, params['color'] holds the value
\* it had before the handler ran and the handler scheduled no generation; and
\* the value the handler last assigned to params['color'] is a '#' followed by
\* exactly six hexadecimal digits.
RejectedEntryChangesNothing ==
    /\ app.dialog = "Invalid Color" =>
          /\ app.params.color = hist.before
          /\ ~hist.scheduled
    /\ hist.entrySet # << >> => HashSixHex(hist.entrySet)

\* C24 - Debounce coalescing: the check_and_generate callbacks that ran since
\* the last call of schedule_generation started at most one generation, and
\* exactly one once none of the scheduled callbacks is left to run; while
\* generation_pending is set no callback has started one yet and a callback is
\* still to run; and no callback ever started a generation when
\* generation_pending was false.
DebounceCoalesces ==
    /\ hist.started <= 1
    /\ app.generation_pending => tk.timers >= 1 /\ hist.started = 0
    /\ (tk.timers = 0 /\ hist.started + hist.idle >= 1) =>
          hist.started = 1 /\ ~app.generation_pending
    /\ ~hist.badStart

\* Two or more callbacks were scheduled before any of them ran, all have run,
\* one started the generation and the others did nothing.
DebounceCoalescesWitness ==
    /\ tk.timers = 0
    /\ hist.started = 1
    /\ hist.idle >= 1
    /\ ~app.generation_pending

\* A generation thread that has started and not ended.
Active(i) == workers[i].pc \in {"read_color", "read_sliders", "store", "post"}

\* C23 - At most one preview generation is in flight: no two generation
\* threads are running at the same time, the status label shows 'Ready' only
\* when no generation thread is running, and the values a thread has read from
\* params are values params held together at some moment.
OneGenerationInFlight ==
    /\ Cardinality({i \in Workers : Active(i)}) <= 1
    /\ app.status = "Ready" => \A i \in Workers : ~Active(i)
    /\ \A i \in Workers :
          workers[i].pc \in {"store", "post", "done"} => ImageOf(workers[i]) \in hist.seen

\* Nothing is left to run: the first generate_preview and every
\* check_and_generate callback have run, every thread has ended and every
\* display callback has run.
Quiescent ==
    /\ ~tk.initial
    /\ tk.timers = 0
    /\ tk.frames = 0
    /\ tk.displays = << >>
    /\ \A i \in Workers : ~Active(i)

\* C22 - Latest parameters win in the GUI preview: when every scheduled
\* callback and every generation thread has finished, the image on the canvas
\* and the image in current_preview are generated from the values params
\* holds.
LatestParametersWin ==
    Quiescent => /\ app.canvas = app.params
                 /\ app.current_preview = app.params

============================================================================
